---- MODULE Spec2Model ----
(***************************************************************************)
(* Schema migration and seed bootstrap of clible (src/clible/db).          *)
(*                                                                         *)
(* The model follows the Python code statement by statement.  The SQLite   *)
(* engine is modelled as the sqlite3 module drives it in its default       *)
(* (legacy) transaction mode:                                              *)
(*   - execute() of an INSERT opens a transaction implicitly; the row is   *)
(*     pending until the connection commits;                               *)
(*   - execute() of DDL or SELECT opens no transaction;                    *)
(*   - executescript() first commits a pending transaction, then runs the  *)
(*     statements of the script one by one in autocommit mode, stopping at *)
(*     the first statement that fails;                                     *)
(*   - a connection that is dropped or closed loses its pending rows;      *)
(*   - a database file has one writer at a time: while a connection has a  *)
(*     transaction open with writes in it, a write of another connection   *)
(*     waits, and fails with "database is locked" when the wait times out; *)
(*     reads, and CREATE TABLE IF NOT EXISTS of a table that exists, need  *)
(*     no lock.                                                            *)
(***************************************************************************)
EXTENDS Integers, Sequences, FiniteSets, TLC

\* ------------------------------------------------------------------ bounds
MaxUnits == 2      \* number of distinct unit file names
NumBooks == 2      \* k, the number of records of the reference dataset

\* ------------------------------------------------------------- file names
\* A file name is the sequence of its characters (digits); every file of the
\* directory ends in ".sql", so the suffix is left out.  "01" < "10" < "2"
\* lexicographically, while 1 < 2 < 10 numerically.
NameList == << <<1, 0>>, <<2>>, <<0, 1>>, <<0, 0>> >>
Names == {NameList[n] : n \in 1..MaxUnits}
NoUnit == <<>>

\* File contents: a sequence of tokens, <<>> for an empty file.  "ws" is a run
\* of whitespace, the others are SQL statements: "ok" always succeeds (CREATE TABLE IF NOT
\* EXISTS ...), "books" is CREATE TABLE books (...), which fails when the
\* table exists, "bad" is malformed SQL.
Bodies == { <<>>, <<"ws">>, <<"ok">>, <<"books">>, <<"ok", "bad">> }

\* ----------------------------------------------------------- the callers
Conns == {"c1", "c2"}
Stores == {"file"} \cup Conns   \* the database file, and each caller's :memory:
ConfigDbPath == "clible.db"
PathArgs == {"None", "clible.db", ":memory:"}

\* -------------------------------------------------------- reference data
\* A dataset is the sequence of the ids of its Book records; 0 stands for a
\* record that lacks a required field.
GoodData == [b \in 1..NumBooks |-> b]
MalformedData == [GoodData EXCEPT ![NumBooks] = 0]
DuplicateData == [GoodData EXCEPT ![NumBooks] = 1]
Datasets == {GoodData, MalformedData, DuplicateData}

VARIABLES
  dir_exists,       \* is there a migrations directory?
  files,            \* the migrations directory: file name -> content
  db,               \* committed state of each database
  pc,               \* position of each caller
  op,               \* the operation the caller is in: open, migrate, seed
  store,            \* the database the caller's connection is attached to
  fk,               \* PRAGMA foreign_keys of the connection
  txn,              \* <<>> or <<working copy>> of the open transaction
  applied,          \* run_migrations: applied
  migration_files,  \* run_migrations: migration_files
  idx,              \* run_migrations: position of path in migration_files
  stmt,             \* executescript: position in the script
  data,             \* seed_books_if_empty: data["books"]
  bk,               \* seed_books_if_empty: position of book in data["books"]
  result,           \* how the caller's last operation ended
  failed,           \* history: the unit whose script raised in the last call
  startLedger,      \* history: Ledger rows the current/last call started with
  ran,              \* history: units whose script the current/last call ran
                    \* (the three are kept until the caller's next operation)
  prevDone          \* history: the databases on which run_migrations has
                    \* completed with the directory unchanged since

conn_vars == <<store, fk, txn>>
mig_vars == <<applied, migration_files, idx, stmt>>
seed_vars == <<data, bk>>
hist_vars == <<failed, startLedger, ran, prevDone>>
vars == <<dir_exists, files, db, pc, op, store, fk, txn, applied, migration_files, idx,
          stmt, data, bk, result, failed, startLedger, ran, prevDone>>

\* --------------------------------------------------------------- database
NewDb(s) ==
  [ hasLedger |-> FALSE, ledger |-> <<>>,
    hasBooks |-> FALSE, books |-> <<>>,
    eff |-> [u \in Names |-> 0],
    journal |-> IF s = "file" THEN "delete" ELSE "memory" ]

Range(s) == {s[n] : n \in DOMAIN s}

\* What the connection of caller c reads: its own pending writes included.
View(c) == IF txn[c] = <<>> THEN db[store[c]] ELSE txn[c][1]

\* ------------------------------------------------- run_migrations helpers
\* Lexicographic order of file names (str comparison of path.name).
RECURSIVE LexLess(_, _)
LexLess(a, b) ==
  IF a = <<>> THEN b # <<>>
  ELSE IF b = <<>> THEN FALSE
  ELSE IF Head(a) < Head(b) THEN TRUE
  ELSE IF Head(a) > Head(b) THEN FALSE
  ELSE LexLess(Tail(a), Tail(b))

RECURSIVE Insert(_, _)
Insert(x, s) ==
  IF s = <<>> THEN <<x>>
  ELSE IF LexLess(x, Head(s)) THEN <<x>> \o s
  ELSE <<Head(s)>> \o Insert(x, Tail(s))

\* Mutant of sorted: the enumeration order is kept.
unsorted(s) == s

\* sorted(..., key=lambda p: p.name)
RECURSIVE sorted(_)
sorted(s) == IF s = <<>> THEN <<>> ELSE Insert(Head(s), sorted(Tail(s)))

\* migrations_dir.glob("*.sql"): the files of the directory, in any order; a
\* directory that does not exist yields nothing (and no error).
Glob(exists, dir) ==
  LET S == IF exists THEN DOMAIN dir ELSE {}
  IN {e \in [1..Cardinality(S) -> S] : \A m, n \in 1..Cardinality(S) : m # n => e[m] # e[n]}

\* str.strip(): leading and trailing whitespace removed.
RECURSIVE lstrip(_)
lstrip(t) == IF t # <<>> /\ Head(t) = "ws" THEN lstrip(Tail(t)) ELSE t
RECURSIVE rstrip(_)
rstrip(t) ==
  IF t # <<>> /\ t[Len(t)] = "ws" THEN rstrip(SubSeq(t, 1, Len(t) - 1)) ELSE t
\* Mutant of strip: the text is taken as read.
nostrip(t) == t

strip(t) == rstrip(lstrip(t))

\* Mutants of EnsureLedger: the table is dropped and created again; the table
\* is not created.
RecreateLedger(d) == [d EXCEPT !.hasLedger = TRUE, !.ledger = <<>>]
LedgerNotCreated(d) == d

\* CREATE TABLE IF NOT EXISTS _migrations (...)
EnsureLedger(d) == [d EXCEPT !.hasLedger = TRUE]

\* Mutant of AppliedNames: the Ledger is not read.
AppliedNone(d) == {}

\* applied = {row[0] for row in cursor.execute("SELECT name FROM _migrations")}
AppliedNames(d) == Range(d.ledger)

\* Mutants of IsApplied: no Ledger check (every file is run on every call);
\* the test inverted; a high-water mark (a name up to the greatest applied
\* name counts as applied).
IsAppliedNever(name, appl) == FALSE
IsAppliedInverted(name, appl) == name \notin appl
IsAppliedHighWater(name, appl) == \E a \in appl : ~LexLess(a, name)

\* `if path.name in applied: continue`
IsApplied(name, appl) == name \in appl

\* Mutant of NameTaken: _migrations.name without its UNIQUE constraint.
NameNeverTaken(name, d) == FALSE

\* name TEXT NOT NULL UNIQUE: is the INSERT of name refused by database d?
NameTaken(name, d) == name \in Range(d.ledger)

\* Does statement tok raise when run against database d?
StmtFails(tok, d) == tok = "bad" \/ (tok = "books" /\ d.hasBooks)

\* Database d after statement number j of unit u, tok, ran and autocommitted.
StmtEffect(d, u, j, tok) ==
  IF tok = "ws" THEN d
  ELSE [d EXCEPT !.eff[u] = IF j > @ THEN j ELSE @,
                 !.hasBooks = @ \/ tok = "books"]

\* Mutant of ImplicitCommit: the pending transaction is rolled back.
ImplicitRollback(view, committed) == committed

\* executescript() commits the pending transaction before it runs the script:
\* the committed database is what the connection saw.
ImplicitCommit(view, committed) == view

\* --------------------------------------------- seed_books_if_empty helpers
\* Mutant of AlreadySeeded: the count is not looked at.
NeverSeeded(d) == FALSE

\* `if cursor.fetchone()[0] > 0: return`
AlreadySeeded(d) == Len(d.books) > 0

\* book["testament"] etc. raise KeyError on a record that lacks the field.
Malformed(b) == b = 0

\* books.id is the primary key.
DuplicateId(b, d) == b \in Range(d.books)

\* --------------------------------------------------- get_connection helpers
\* path = db_path if db_path is not None else get_config().db_path
ResolvePath(arg) == IF arg # "None" THEN arg ELSE ConfigDbPath

\* sqlite3.connect(str(path)): ":memory:" is a private database of the
\* connection, anything else is the database file.
StoreOf(path, c) == IF path = ":memory:" THEN c ELSE "file"

\* Mutant of JournalAfterWal: the pragma is not executed.
JournalKept(d) == d.journal

\* PRAGMA journal_mode=WAL; an in-memory database keeps journal mode "memory".
JournalAfterWal(d) == IF d.journal = "memory" THEN "memory" ELSE "wal"

\* Mutant of FailurePc: get_connection swallows the exception and returns conn.
FailureSwallowed(o) == "ready"

\* An exception leaves get_connection without a return value, the connection
\* object is dropped; run_migrations and seed_books_if_empty called directly
\* raise to a caller that still holds the connection.
FailurePc(o) == IF o = "open" THEN "idle" ELSE "ready"

\* ------------------------------------------------------------------- Init
Init ==
  /\ dir_exists = FALSE
  /\ files = [u \in {} |-> <<>>]
  /\ db = [s \in Stores |-> NewDb(s)]
  /\ pc = [c \in Conns |-> "idle"]
  /\ op = [c \in Conns |-> "none"]
  /\ store = [c \in Conns |-> "none"]
  /\ fk = [c \in Conns |-> FALSE]
  /\ txn = [c \in Conns |-> <<>>]
  /\ applied = [c \in Conns |-> {}]
  /\ migration_files = [c \in Conns |-> <<>>]
  /\ idx = [c \in Conns |-> 1]
  /\ stmt = [c \in Conns |-> 1]
  /\ data = [c \in Conns |-> <<>>]
  /\ bk = [c \in Conns |-> 1]
  /\ result = [c \in Conns |-> [op |-> "none", status |-> "ok"]]
  /\ failed = [c \in Conns |-> NoUnit]
  /\ startLedger = [c \in Conns |-> <<>>]
  /\ ran = [c \in Conns |-> {}]
  /\ prevDone = {}

\* ------------------------------------------------------- common fragments
\* The locals of run_migrations and seed_books_if_empty end with the call.
NoLocals(c) ==
  /\ applied' = [applied EXCEPT ![c] = {}]
  /\ migration_files' = [migration_files EXCEPT ![c] = <<>>]
  /\ idx' = [idx EXCEPT ![c] = 1]
  /\ stmt' = [stmt EXCEPT ![c] = 1]
  /\ data' = [data EXCEPT ![c] = <<>>]
  /\ bk' = [bk EXCEPT ![c] = 1]

\* The history of c's last run_migrations call is forgotten.
NoHistory(c) ==
  /\ failed' = [failed EXCEPT ![c] = NoUnit]
  /\ startLedger' = [startLedger EXCEPT ![c] = <<>>]
  /\ ran' = [ran EXCEPT ![c] = {}]

\* The current operation of c raises exc: a sqlite3 error or a KeyError, as
\* the library made it; it holds the engine's message and no file name.
\* A caller that keeps its connection keeps it with the transaction t.
RaiseHolding(c, exc, t) ==
  /\ result' = [result EXCEPT ![c] = [op |-> op[c], status |-> exc, name |-> NoUnit]]
  /\ pc' = [pc EXCEPT ![c] = FailurePc(op[c])]
  /\ NoLocals(c)
  /\ IF FailurePc(op[c]) = "idle"
       THEN /\ store' = [store EXCEPT ![c] = "none"]
            /\ fk' = [fk EXCEPT ![c] = FALSE]
            /\ txn' = [txn EXCEPT ![c] = <<>>]
            /\ db' = [db EXCEPT ![c] = NewDb(c)]
            /\ prevDone' = prevDone \ {c}
       ELSE /\ txn' = [txn EXCEPT ![c] = t]
            /\ UNCHANGED <<store, fk, db, prevDone>>

\* The statement that raised opened no transaction.
Raise(c, exc) == RaiseHolding(c, exc, txn[c])

\* The current operation of c returns normally.
Return(c) ==
  /\ result' = [result EXCEPT ![c] = [op |-> op[c], status |-> "ok"]]
  /\ pc' = [pc EXCEPT ![c] = "ready"]
  /\ NoLocals(c)

Idle == \A c \in Conns : pc[c] \in {"idle", "ready"}

\* ------------------------------------------------ connections (the callers)
\* sqlite3.connect(":memory:") as the tests do it: no pragmas, no migration.
RawConnect(c, path) ==
  /\ pc[c] = "idle"
  /\ pc' = [pc EXCEPT ![c] = "ready"]
  /\ op' = [op EXCEPT ![c] = "connect"]
  /\ store' = [store EXCEPT ![c] = StoreOf(path, c)]
  /\ result' = [result EXCEPT ![c] = [op |-> "connect", status |-> "ok"]]
  /\ UNCHANGED <<dir_exists, files, db, fk, txn, mig_vars, seed_vars, hist_vars>>

\* conn.close(): pending writes are lost, a :memory: database is gone.
Close(c) ==
  /\ pc[c] = "ready"
  /\ pc' = [pc EXCEPT ![c] = "idle"]
  /\ store' = [store EXCEPT ![c] = "none"]
  /\ fk' = [fk EXCEPT ![c] = FALSE]
  /\ txn' = [txn EXCEPT ![c] = <<>>]
  /\ db' = [db EXCEPT ![c] = NewDb(c)]
  /\ op' = [op EXCEPT ![c] = "close"]
  /\ result' = [result EXCEPT ![c] = [op |-> "close", status |-> "ok"]]
  /\ failed' = [failed EXCEPT ![c] = NoUnit]
  /\ startLedger' = [startLedger EXCEPT ![c] = <<>>]
  /\ ran' = [ran EXCEPT ![c] = {}]
  /\ prevDone' = prevDone \ {c}
  /\ UNCHANGED <<dir_exists, files, mig_vars, seed_vars>>

\* The migrations directory is made.
MkDir ==
  /\ Idle
  /\ ~dir_exists
  /\ dir_exists' = TRUE
  /\ UNCHANGED <<files, db, pc, op, conn_vars, mig_vars, seed_vars, result, hist_vars>>

\* The migrations directory, empty, is taken away.
RmDir ==
  /\ Idle
  /\ dir_exists /\ DOMAIN files = {}
  /\ dir_exists' = FALSE
  /\ UNCHANGED <<files, db, pc, op, conn_vars, mig_vars, seed_vars, result, hist_vars>>

\* A unit file is put into the directory between calls; the name of a
\* recorded unit is not used again.
AddFile(u, body) ==
  /\ Idle
  /\ dir_exists
  /\ u \notin DOMAIN files
  /\ \A s \in Stores : u \notin Range(db[s].ledger)
  /\ files' = [n \in DOMAIN files \cup {u} |-> IF n = u THEN body ELSE files[n]]
  /\ prevDone' = {}
  /\ UNCHANGED <<dir_exists, db, pc, op, conn_vars, mig_vars, seed_vars, result, failed,
                 startLedger, ran>>

\* Old unit files are pruned from the directory while no caller holds a
\* connection: the file of the oldest record of the database file goes first.
RemoveFile(u) ==
  /\ \A c \in Conns : pc[c] = "idle"
  /\ u \in DOMAIN files
  /\ LET l == db["file"].ledger
     IN \E k \in DOMAIN l : l[k] = u /\ \A j \in 1..(k - 1) : l[j] \notin DOMAIN files
  /\ files' = [n \in DOMAIN files \ {u} |-> files[n]]
  /\ UNCHANGED <<dir_exists, db, pc, op, conn_vars, mig_vars, seed_vars, result, hist_vars>>

\* A file without its malformed statements.
IsSql(tok) == tok # "bad"
Fixed(body) == SelectSeq(body, IsSql)

\* The file of the unit at which a caller's last call failed is fixed between
\* calls: its malformed statements are taken out.
FixFile(u) ==
  /\ Idle
  /\ u \in DOMAIN files
  /\ \E c \in Conns : failed[c] = u
  /\ \A s \in Stores : u \notin Range(db[s].ledger)
  /\ Fixed(files[u]) # files[u]
  /\ files' = [files EXCEPT ![u] = Fixed(files[u])]
  /\ prevDone' = {}
  /\ UNCHANGED <<dir_exists, db, pc, op, conn_vars, mig_vars, seed_vars, result, failed,
                 startLedger, ran>>

\* The process of a caller ends in the middle of a call: the connection is
\* gone, and with it what it had not committed.
Crash(c) ==
  /\ pc[c] \notin {"idle", "ready"}
  /\ result' = [result EXCEPT ![c] = [op |-> "none", status |-> "crashed"]]
  /\ pc' = [pc EXCEPT ![c] = "idle"]
  /\ op' = [op EXCEPT ![c] = "none"]
  /\ NoLocals(c)
  /\ store' = [store EXCEPT ![c] = "none"]
  /\ fk' = [fk EXCEPT ![c] = FALSE]
  /\ txn' = [txn EXCEPT ![c] = <<>>]
  /\ db' = [db EXCEPT ![c] = NewDb(c)]
  /\ failed' = [failed EXCEPT ![c] = NoUnit]
  /\ startLedger' = [startLedger EXCEPT ![c] = <<>>]
  /\ ran' = [ran EXCEPT ![c] = {}]
  /\ prevDone' = prevDone \ {c}
  /\ UNCHANGED <<dir_exists, files>>

\* ---------------------------------------------------------- get_connection
\* path = ...; conn = sqlite3.connect(str(path))
GetConnection(c, arg) ==
  /\ pc[c] = "idle"
  /\ pc' = [pc EXCEPT ![c] = "pragma_wal"]
  /\ op' = [op EXCEPT ![c] = "open"]
  /\ store' = [store EXCEPT ![c] = StoreOf(ResolvePath(arg), c)]
  /\ result' = [result EXCEPT ![c] = [op |-> "open", status |-> "running"]]
  /\ UNCHANGED <<dir_exists, files, db, fk, txn, mig_vars, seed_vars, hist_vars>>

\* conn.execute("PRAGMA journal_mode=WAL")
PragmaWal(c) ==
  /\ pc[c] = "pragma_wal"
  /\ db' = [db EXCEPT ![store[c]].journal = JournalAfterWal(db[store[c]])]
  /\ pc' = [pc EXCEPT ![c] = "pragma_fk"]
  /\ UNCHANGED <<dir_exists, files, op, conn_vars, mig_vars, seed_vars, result, hist_vars>>

\* conn.execute("PRAGMA foreign_keys=ON"); row_factory; run_migrations(conn)
PragmaFk(c) ==
  /\ pc[c] = "pragma_fk"
  /\ fk' = [fk EXCEPT ![c] = TRUE]
  /\ pc' = [pc EXCEPT ![c] = "mig_begin"]
  /\ UNCHANGED <<dir_exists, files, db, op, store, txn, mig_vars, seed_vars, result, hist_vars>>

\* ---------------------------------------------------------- run_migrations
\* A caller that holds a connection calls run_migrations(conn, dir).
RunMigrations(c) ==
  /\ pc[c] = "ready"
  /\ pc' = [pc EXCEPT ![c] = "mig_begin"]
  /\ op' = [op EXCEPT ![c] = "migrate"]
  /\ result' = [result EXCEPT ![c] = [op |-> "migrate", status |-> "running"]]
  /\ UNCHANGED <<dir_exists, files, db, conn_vars, mig_vars, seed_vars, hist_vars>>

path(c) == migration_files[c][idx[c]]
sql(c) == strip(files[path(c)])

\* Does the statement c is at write to the database?
NeedsWrite(c) ==
  CASE pc[c] = "mig_begin" -> ~View(c).hasLedger
    [] pc[c] = "mig_script" ->
         LET tok == sql(c)[stmt[c]]
             d == db[store[c]]
         IN ~StmtFails(tok, d) /\ StmtEffect(d, path(c), stmt[c], tok) # d
    [] pc[c] = "mig_record" -> TRUE
    [] pc[c] = "seed_insert" -> bk[c] <= Len(data[c]) /\ ~Malformed(data[c][bk[c]])
    [] OTHER -> FALSE

\* No other connection to the database of c holds the write lock.
CanWrite(c) ==
  \A o \in Conns \ {c} : store[o] = store[c] => txn[o] = <<>>

\* The write c is at waited for the lock until the timeout of the connection:
\* sqlite3.OperationalError, database is locked.
Busy(c) ==
  /\ NeedsWrite(c) /\ ~CanWrite(c)
  /\ Raise(c, "OperationalError")
  /\ failed' = [failed EXCEPT ![c] = IF pc[c] = "mig_script" THEN path(c) ELSE @]
  /\ UNCHANGED <<dir_exists, files, op, startLedger, ran>>

\* CREATE TABLE IF NOT EXISTS _migrations; applied = {...}; migration_files =
\* sorted(glob).  DDL opens no transaction: it joins the open one, if any,
\* and is committed at once otherwise.
MigBegin(c) ==
  /\ pc[c] = "mig_begin"
  /\ NeedsWrite(c) => CanWrite(c)
  /\ LET v == EnsureLedger(View(c))
     IN /\ IF txn[c] = <<>>
             THEN db' = [db EXCEPT ![store[c]] = v] /\ txn' = txn
             ELSE txn' = [txn EXCEPT ![c] = <<v>>] /\ db' = db
        /\ applied' = [applied EXCEPT ![c] = AppliedNames(v)]
        /\ startLedger' = [startLedger EXCEPT ![c] = v.ledger]
  /\ \E e \in Glob(dir_exists, files) :
       migration_files' = [migration_files EXCEPT ![c] = sorted(e)]
  /\ idx' = [idx EXCEPT ![c] = 1]
  /\ ran' = [ran EXCEPT ![c] = {}]
  /\ failed' = [failed EXCEPT ![c] = NoUnit]
  /\ pc' = [pc EXCEPT ![c] = "mig_loop"]
  /\ UNCHANGED <<dir_exists, files, op, store, fk, stmt, seed_vars, result, prevDone>>

\* `if path.name in applied: continue`
MigSkip(c) ==
  /\ pc[c] = "mig_loop"
  /\ idx[c] <= Len(migration_files[c])
  /\ IsApplied(path(c), applied[c])
  /\ idx' = [idx EXCEPT ![c] = @ + 1]
  /\ UNCHANGED <<dir_exists, files, db, pc, op, conn_vars, applied, migration_files, stmt,
                 seed_vars, result, hist_vars>>

\* sql is not empty: cursor.executescript(sql) starts, committing what is pending.
MigScript(c) ==
  /\ pc[c] = "mig_loop"
  /\ idx[c] <= Len(migration_files[c])
  /\ ~IsApplied(path(c), applied[c])
  /\ sql(c) # <<>>
  /\ db' = [db EXCEPT ![store[c]] = ImplicitCommit(View(c), db[store[c]])]
  /\ txn' = [txn EXCEPT ![c] = <<>>]
  /\ stmt' = [stmt EXCEPT ![c] = 1]
  /\ ran' = [ran EXCEPT ![c] = @ \cup {path(c)}]
  /\ pc' = [pc EXCEPT ![c] = "mig_script"]
  /\ UNCHANGED <<dir_exists, files, op, store, fk, applied, migration_files, idx, seed_vars,
                 result, failed, startLedger, prevDone>>

\* sql is empty: executescript is skipped.
MigEmpty(c) ==
  /\ pc[c] = "mig_loop"
  /\ idx[c] <= Len(migration_files[c])
  /\ ~IsApplied(path(c), applied[c])
  /\ sql(c) = <<>>
  /\ pc' = [pc EXCEPT ![c] = "mig_record"]
  /\ UNCHANGED <<dir_exists, files, db, op, conn_vars, mig_vars, seed_vars, result, hist_vars>>

\* One statement of the script: it raises, or it takes effect and is committed.
MigStmt(c) ==
  /\ pc[c] = "mig_script"
  /\ NeedsWrite(c) => CanWrite(c)
  /\ LET tok == sql(c)[stmt[c]]
         d == db[store[c]]
     IN IF StmtFails(tok, d)
          THEN /\ Raise(c, "OperationalError")
               /\ failed' = [failed EXCEPT ![c] = path(c)]
          ELSE /\ db' = [db EXCEPT ![store[c]] = StmtEffect(d, path(c), stmt[c], tok)]
               /\ stmt' = [stmt EXCEPT ![c] = @ + 1]
               /\ pc' = [pc EXCEPT ![c] =
                           IF stmt[c] = Len(sql(c)) THEN "mig_record" ELSE "mig_script"]
               /\ UNCHANGED <<conn_vars, result, failed, applied,
                              migration_files, idx, seed_vars, prevDone>>
  /\ UNCHANGED <<dir_exists, files, op, startLedger, ran>>

\* INSERT INTO _migrations (name) VALUES (?); applied.add(path.name).
\* The INSERT opens a transaction, which stays open when the INSERT is refused.
MigRecord(c) ==
  /\ pc[c] = "mig_record"
  /\ CanWrite(c)
  /\ IF NameTaken(path(c), View(c))
       THEN RaiseHolding(c, "IntegrityError", <<View(c)>>)
       ELSE /\ txn' = [txn EXCEPT ![c] =
                         <<[View(c) EXCEPT !.ledger = Append(@, path(c))]>>]
            /\ applied' = [applied EXCEPT ![c] = @ \cup {path(c)}]
            /\ idx' = [idx EXCEPT ![c] = @ + 1]
            /\ pc' = [pc EXCEPT ![c] = "mig_loop"]
            /\ UNCHANGED <<db, store, fk, result, migration_files, stmt, seed_vars,
                           prevDone>>
  /\ UNCHANGED <<dir_exists, files, op, failed, startLedger, ran>>

\* The loop is over: conn.commit().  get_connection goes on to the seeder.
MigCommit(c) ==
  /\ pc[c] = "mig_loop"
  /\ idx[c] > Len(migration_files[c])
  /\ db' = [db EXCEPT ![store[c]] = View(c)]
  /\ txn' = [txn EXCEPT ![c] = <<>>]
  /\ prevDone' = prevDone \cup {store[c]}
  /\ IF op[c] = "open"
       THEN /\ pc' = [pc EXCEPT ![c] = "seed_check"]
            /\ NoLocals(c) /\ NoHistory(c)
            /\ UNCHANGED result
       ELSE Return(c) /\ UNCHANGED <<failed, startLedger, ran>>
  /\ UNCHANGED <<dir_exists, files, op, store, fk>>

\* ----------------------------------------------------- seed_books_if_empty
\* A caller that holds a connection calls seed_books_if_empty(conn).
SeedBooksIfEmpty(c) ==
  /\ pc[c] = "ready"
  /\ pc' = [pc EXCEPT ![c] = "seed_check"]
  /\ op' = [op EXCEPT ![c] = "seed"]
  /\ result' = [result EXCEPT ![c] = [op |-> "seed", status |-> "running"]]
  /\ NoHistory(c)
  /\ UNCHANGED <<dir_exists, files, db, conn_vars, mig_vars, seed_vars, prevDone>>

\* SELECT COUNT(*) FROM books; return if > 0; else load the dataset.
SeedCheck(c) ==
  /\ pc[c] = "seed_check"
  /\ IF ~View(c).hasBooks
       THEN Raise(c, "OperationalError")
       ELSE IF AlreadySeeded(View(c))
         THEN Return(c) /\ UNCHANGED <<db, conn_vars, prevDone>>
         ELSE /\ \E d \in Datasets : data' = [data EXCEPT ![c] = d]
              /\ bk' = [bk EXCEPT ![c] = 1]
              /\ pc' = [pc EXCEPT ![c] = "seed_insert"]
              /\ UNCHANGED <<db, conn_vars, result, mig_vars, prevDone>>
  /\ UNCHANGED <<dir_exists, files, op, failed, startLedger, ran>>

\* One round of `for book in data["books"]`: the INSERT opens a transaction.
SeedInsert(c) ==
  /\ pc[c] = "seed_insert"
  /\ bk[c] <= Len(data[c])
  /\ NeedsWrite(c) => CanWrite(c)
  /\ LET book == data[c][bk[c]]
     IN IF Malformed(book)
          THEN Raise(c, "KeyError")
          ELSE IF DuplicateId(book, View(c))
            THEN Raise(c, "IntegrityError")
            ELSE /\ txn' = [txn EXCEPT ![c] =
                              <<[View(c) EXCEPT !.books = Append(@, book)]>>]
                 /\ bk' = [bk EXCEPT ![c] = @ + 1]
                 /\ UNCHANGED <<db, pc, store, fk, result, mig_vars, data, prevDone>>
  /\ UNCHANGED <<dir_exists, files, op, failed, startLedger, ran>>

\* conn.commit() after the loop.
SeedCommit(c) ==
  /\ pc[c] = "seed_insert"
  /\ bk[c] > Len(data[c])
  /\ db' = [db EXCEPT ![store[c]] = View(c)]
  /\ txn' = [txn EXCEPT ![c] = <<>>]
  /\ Return(c)
  /\ UNCHANGED <<dir_exists, files, op, store, fk, hist_vars>>

\* ---------------------------------------------------------- specification
Step(c) ==
  \/ RawConnect(c, ":memory:")
  \/ Close(c)
  \/ \E arg \in PathArgs : GetConnection(c, arg)
  \/ PragmaWal(c)
  \/ PragmaFk(c)
  \/ RunMigrations(c)
  \/ MigBegin(c)
  \/ MigSkip(c)
  \/ MigScript(c)
  \/ MigEmpty(c)
  \/ MigStmt(c)
  \/ MigRecord(c)
  \/ MigCommit(c)
  \/ SeedBooksIfEmpty(c)
  \/ SeedCheck(c)
  \/ SeedInsert(c)
  \/ SeedCommit(c)
  \/ Crash(c)

Environment ==
  \/ MkDir
  \/ RmDir
  \/ \E u \in Names, body \in Bodies : AddFile(u, body)
  \/ \E u \in Names : FixFile(u)
  \/ \E u \in Names : RemoveFile(u)

\* One caller, its calls one after another.
Next == Step("c1") \/ Environment

Spec == Init /\ [][Next]_vars

\* Two callers, each with its own connection to the database file, call
\* run_migrations; their steps interleave.
StepConc(c) ==
  \/ RawConnect(c, ConfigDbPath)
  \/ Close(c)
  \/ RunMigrations(c)
  \/ MigBegin(c)
  \/ MigSkip(c)
  \/ MigScript(c)
  \/ MigEmpty(c)
  \/ MigStmt(c)
  \/ MigRecord(c)
  \/ MigCommit(c)
  \/ Busy(c)

EnvironmentConc ==
  \/ MkDir
  \/ \E u \in Names, body \in Bodies : AddFile(u, body)

NextConc == (\E c \in Conns : StepConc(c)) \/ EnvironmentConc

SpecConc == Init /\ [][NextConc]_vars

\* ====================================================== properties
InMig(c) == pc[c] \in {"mig_loop", "mig_script", "mig_record"}
Ledger(s) == db[s].ledger
ViewLedger(c) == View(c).ledger
Recorded(s) == Range(db[s].ledger)
Ascending(l) == \A m, n \in DOMAIN l : m < n => LexLess(l[m], l[n])
NoDuplicates(l) == \A m, n \in DOMAIN l : m # n => l[m] # l[n]

\* The step is the end of c's process in the middle of a call.
Crashes(c) == result'[c].status = "crashed"

\* C1 -- Idempotence of run_migrations: once a call has completed on a
\* database and no file was added since, no step of a further call on that
\* database starts a script or reaches the record step, changes the pending or
\* the committed Ledger rows, or raises.
Thm_C1_Idempotent ==
  [][\A c \in Conns :
       (pc[c] \in {"mig_begin", "mig_loop"} /\ store[c] \in prevDone
          /\ ~Crashes(c)) =>
         /\ pc'[c] \notin {"mig_script", "mig_record"}
         /\ ran'[c] = {}
         /\ ViewLedger(c)' = Ledger(store[c])
         /\ Ledger(store[c])' = Ledger(store[c])
         /\ result'[c].status \in {"running", "ok"}]_vars

\* A second call has skipped every file of a directory of two and is about
\* to commit.
Wit_C1_SecondCallSkippedAll ==
  \E c \in Conns :
    /\ pc[c] = "mig_loop" /\ store[c] \in prevDone
    /\ idx[c] > Len(migration_files[c])
    /\ Len(migration_files[c]) >= 2
    /\ Len(Ledger(store[c])) >= 2

\* C2 -- Ordering within one call: while a unit is executed or recorded, every
\* file whose name sorts before it is recorded, no file whose name sorts after
\* it has been run or recorded by this call; and a call that started on an
\* empty Ledger keeps the Ledger rows, in id order, ascending by name.
Thm_C2_SortedOrder ==
  \A c \in Conns :
    InMig(c) =>
      /\ pc[c] \in {"mig_script", "mig_record"} =>
           \A n \in DOMAIN files :
             /\ LexLess(n, path(c)) => n \in Range(ViewLedger(c))
             /\ LexLess(path(c), n) =>
                  /\ n \notin ran[c]
                  /\ n \in Range(ViewLedger(c)) => n \in Range(startLedger[c])
      /\ startLedger[c] = <<>> => Ascending(ViewLedger(c))

\* The second unit of a fresh database is being executed, the first recorded.
Wit_C2_SecondUnitRuns ==
  \E c \in Conns :
    /\ pc[c] = "mig_script" /\ idx[c] = 2
    /\ startLedger[c] = <<>>
    /\ ViewLedger(c) = <<migration_files[c][1]>>

\* C3 -- Per-unit atomicity, as claimed: in the committed database a unit with
\* statements has effects only if its name is in the Ledger, and its name is in
\* the Ledger only if all its statements took effect.
C3_UnitAtomic ==
  \A s \in Stores : \A u \in DOMAIN files :
    strip(files[u]) # <<>> =>
      /\ db[s].eff[u] > 0 => u \in Recorded(s)
      /\ u \in Recorded(s) => db[s].eff[u] = Len(strip(files[u]))

\* C4 -- Halt at first failure: in the step in which a statement of unit u
\* raises, u is not in the Ledger, nothing is pending (every record made so
\* far is committed), every earlier-sorted file is in the committed Ledger, no
\* later-sorted file was run or recorded by this call, and the step neither
\* changes the database file nor, when the caller keeps the connection, its
\* database.
Thm_C4_HaltAtFirstFailure ==
  [][\A c \in Conns :
       (pc[c] = "mig_script" /\ result'[c].status = "OperationalError") =>
         LET u == path(c)
             s == store[c]
         IN /\ pc'[c] \notin {"mig_script", "mig_record"}
            /\ u \notin Recorded(s)
            /\ txn[c] = <<>>
            /\ \A n \in DOMAIN files :
                 /\ LexLess(n, u) => n \in Recorded(s)
                 /\ LexLess(u, n) =>
                      /\ n \notin ran[c]
                      /\ n \in Recorded(s) => n \in Range(startLedger[c])
            /\ db'["file"] = db["file"]
            /\ store'[c] = s => (db'[s] = db[s] /\ txn'[c] = <<>>)]_vars

\* A call failed at a unit after it had run and recorded an earlier-sorted one.
Wit_C4_FailedAfterEarlierUnit ==
  \E c \in Conns :
    /\ pc[c] = "ready" /\ result[c].status = "OperationalError"
    /\ failed[c] # NoUnit
    /\ \E n \in ran[c] : LexLess(n, failed[c]) /\ n \in Recorded(store[c])

\* C5 -- Seed all-or-nothing, as claimed: the committed books table of every
\* database holds no row or all k rows of the dataset.
C5_SeedAllOrNothing ==
  \A s \in Stores : Len(db[s].books) \in {0, NumBooks}

\* Every file of the directory is recorded in the committed database of c's
\* connection, with all its statements in effect.
SchemaApplied(c) ==
  \A u \in DOMAIN files :
    /\ u \in Recorded(store[c])
    /\ db[store[c]].eff[u] >= Len(strip(files[u]))

\* C6 -- Provisioner fail-fast: in every step of a get_connection call, the
\* seeder is only entered after run_migrations has applied and committed every
\* file; the call returns only with both done (every file applied, books
\* table seeded, nothing pending); and a failure leaves the caller with no
\* connection.
Thm_C6_FailFast ==
  [][\A c \in Conns :
       op'[c] = "open" =>
         /\ pc'[c] \in {"seed_check", "seed_insert"} => SchemaApplied(c)'
         /\ (pc[c] # "ready" /\ pc'[c] = "ready") =>
              /\ result'[c].status = "ok"
              /\ pc[c] \in {"seed_check", "seed_insert"}
              /\ SchemaApplied(c)'
              /\ txn'[c] = <<>>
              /\ Len(db'[store'[c]].books) > 0
         /\ result'[c].status \notin {"running", "ok"} =>
              (pc'[c] = "idle" /\ store'[c] = "none")]_vars

\* get_connection failed in run_migrations: the caller holds no connection.
Wit_C6_OpenFailedInRunner ==
  \E c \in Conns :
    /\ op[c] = "open" /\ failed[c] # NoUnit
    /\ result[c].status = "OperationalError"
    /\ pc[c] = "idle" /\ store[c] = "none"

\* C7 -- Seed once: a seed that commits leaves exactly the k rows of the
\* dataset, in dataset order; a call that finds rows returns at once without
\* error and without writing; and a table of k committed rows keeps its rows
\* in every step (as long as its database exists).
Thm_C7_SeedOnce ==
  [][\A c \in Conns :
       /\ (pc[c] = "seed_insert" /\ pc'[c] = "ready" /\ result'[c].status = "ok") =>
            /\ db'[store[c]].books = data[c]
            /\ Len(db'[store[c]].books) = NumBooks
       /\ (pc[c] = "seed_check" /\ Len(View(c).books) > 0 /\ ~Crashes(c)) =>
            /\ pc'[c] = "ready" /\ result'[c].status = "ok"
            /\ db' = db /\ txn' = txn
       /\ \A s \in Stores :
            (Len(db[s].books) = NumBooks /\ (s = "file" \/ store'[s] = s)) =>
              db'[s].books = db[s].books]_vars

\* seed_books_if_empty was called on a connection that get_connection had
\* returned (and so had seeded), and returned normally.
Wit_C7_SeededTwice ==
  \E c \in Conns :
    /\ pc[c] = "ready" /\ fk[c]
    /\ result[c] = [op |-> "seed", status |-> "ok"]
    /\ db[store[c]].books = GoodData

\* C8 -- Completeness: when a call that started on an empty Ledger commits,
\* with every file of the directory non-empty, the committed Ledger has one
\* row per file and the names of its rows are the names of the files.
Thm_C8_Complete ==
  [][\A c \in Conns :
       ( /\ pc[c] = "mig_loop" /\ ~InMig(c)' /\ ~Crashes(c)
         /\ startLedger[c] = <<>>
         /\ \A u \in DOMAIN files : strip(files[u]) # <<>> ) =>
           /\ Len(Ledger(store[c])') = Cardinality(DOMAIN files)
           /\ Range(Ledger(store[c])') = DOMAIN files]_vars

\* A call on a fresh database has returned with two non-empty units recorded.
Wit_C8_TwoUnitsRecorded ==
  \E c \in Conns :
    /\ pc[c] = "ready" /\ result[c] = [op |-> "migrate", status |-> "ok"]
    /\ startLedger[c] = <<>>
    /\ Cardinality(ran[c]) >= 2
    /\ Len(Ledger(store[c])) >= 2

\* C9 -- Exactly once under sequential use: no step leaves a name twice in
\* the Ledger (committed or pending), starts the script of a unit that is
\* recorded, or ends the record step with an IntegrityError.
Thm_C9_ExactlyOnce ==
  [][\A c \in Conns :
       /\ \A s \in Stores : NoDuplicates(Ledger(s)')
       /\ store'[c] # "none" => NoDuplicates(ViewLedger(c)')
       /\ \A u \in ran'[c] \ ran[c] : u \notin Range(ViewLedger(c))
       /\ pc[c] = "mig_record" => result'[c].status # "IntegrityError"]_vars

\* A later call runs the script of a file added after an earlier call.
Wit_C9_LaterCallRunsNewFile ==
  \E c \in Conns :
    /\ pc[c] = "mig_script"
    /\ startLedger[c] # <<>>
    /\ store[c] = "file"

\* The connection of c has been through both pragmas of get_connection.
Configured(c) == op[c] = "open" /\ pc[c] \notin {"idle", "pragma_wal", "pragma_fk"}

\* C10 -- Connection settings, as claimed: from the moment run_migrations is
\* entered, every connection of get_connection has foreign keys on and journal
\* mode wal, whatever the path.
C10_AlwaysWal ==
  \A c \in Conns :
    Configured(c) => (fk[c] /\ db[store[c]].journal = "wal")

\* C10, amended -- foreign keys are on for every path, the journal mode is wal
\* for a database file and stays "memory" for ":memory:"; and a connection
\* with foreign keys on keeps these settings while it lives.
Thm_C10_Settings ==
  \A c \in Conns :
    (Configured(c) \/ fk[c]) =>
      /\ fk[c]
      /\ db[store[c]].journal = IF store[c] = "file" THEN "wal" ELSE "memory"

\* get_connection returned a connection to the database file.
Wit_C10_FileConnectionReturned ==
  \E c \in Conns :
    /\ op[c] = "open" /\ pc[c] = "ready" /\ store[c] = "file"
    /\ fk[c] /\ db["file"].journal = "wal"

\* C11 -- Error identity, as claimed: when a unit's statements fail, the error
\* the caller gets (from run_migrations, or from get_connection unchanged) is
\* a MigrationFailed that carries the name of the failing unit.
C11_ErrorNamesUnit ==
  \A c \in Conns :
    (failed[c] # NoUnit /\ result[c].op \in {"migrate", "open"}
       /\ result[c].status \notin {"running", "ok"}) =>
      /\ result[c].status = "MigrationFailed"
      /\ result[c].name = failed[c]

\* No file of the directory has a statement that fails on its own: no
\* malformed SQL, and at most one file that creates the books table.
Sound(dir) ==
  /\ \A u \in DOMAIN dir : "bad" \notin Range(dir[u])
  /\ Cardinality({u \in DOMAIN dir : "books" \in Range(dir[u])}) <= 1

\* C12 -- Recovery by re-running, as claimed: when a call comes to a unit that
\* an earlier call left partly executed and not recorded, and no file of the
\* directory is broken (any more), the unit is run from its first statement
\* and that statement does not raise.
C12_RetryFromScratch ==
  [][\A c \in Conns :
       ( /\ pc[c] = "mig_script" /\ stmt[c] = 1
         /\ db[store[c]].eff[path(c)] > 0
         /\ path(c) \notin Recorded(store[c])
         /\ Sound(files)
         /\ ~Crashes(c) ) =>
           pc'[c] \in {"mig_script", "mig_record"}]_vars

\* C13 -- Scoped transactions, as claimed: a caller that is not inside
\* run_migrations or seed_books_if_empty (the call has returned or raised) has
\* a connection without an open transaction, nothing is left pending.
C13_NoOpenTransaction ==
  \A c \in Conns : pc[c] \in {"idle", "ready"} => txn[c] = <<>>

IsPrefix(l, m) == Len(l) <= Len(m) /\ SubSeq(m, 1, Len(l)) = l

\* C14 -- Ledger is append-only: every step of every operation leaves the
\* committed Ledger rows of a database that still exists in place, in their
\* order; rows are only added after them.  This covers calls made after the
\* file of a recorded unit was taken out of the directory.
Thm_C14_AppendOnly ==
  [][\A s \in Stores :
       (s = "file" \/ store'[s] = s) => IsPrefix(Ledger(s), Ledger(s)')]_vars

\* A call is about to commit on a database that has the record of a unit
\* whose file is no longer in the directory.
Wit_C14_CallAfterFileRemoved ==
  \E c \in Conns :
    /\ pc[c] = "mig_loop" /\ idx[c] > Len(migration_files[c])
    /\ \E u \in Recorded(store[c]) : u \notin DOMAIN files

\* The file content holds nothing but whitespace.
Blank(body) == \A k \in DOMAIN body : body[k] = "ws"

\* C15 -- Empty-body units: at a file that is not in `applied` and holds only
\* whitespace the call goes straight to the record step, no statement is run
\* and nothing is committed; the record step appends its name after the rows
\* of the earlier-sorted files and before any row this call makes for a
\* later-sorted file, without error; no database ever shows an effect of such
\* a file; and a call that finds its name in the Ledger skips it.
Thm_C15_EmptyBody ==
  [][\A c \in Conns :
       /\ ( /\ pc[c] = "mig_loop" /\ idx[c] <= Len(migration_files[c])
            /\ Blank(files[path(c)]) /\ ~Crashes(c) ) =>
              /\ db' = db /\ txn' = txn /\ ran' = ran
              /\ IF path(c) \in Range(ViewLedger(c))
                   THEN pc'[c] = "mig_loop" /\ idx'[c] = idx[c] + 1
                   ELSE pc'[c] = "mig_record" /\ idx'[c] = idx[c]
       /\ ( /\ pc[c] = "mig_record" /\ Blank(files[path(c)]) /\ ~Crashes(c) ) =>
              /\ ViewLedger(c)' = Append(ViewLedger(c), path(c))
              /\ result'[c].status = "running"
              /\ db' = db
              /\ \A n \in DOMAIN files :
                   /\ LexLess(n, path(c)) => n \in Range(ViewLedger(c))
                   /\ (LexLess(path(c), n) /\ n \in Range(ViewLedger(c))) =>
                        n \in Range(startLedger[c])
       /\ \A s \in Stores : \A u \in DOMAIN files' :
            Blank(files'[u]) => db'[s].eff[u] = 0]_vars

\* A call has just skipped a whitespace-only file that an earlier call had
\* recorded, after a file with statements.
Wit_C15_BlankUnitSkipped ==
  \E c \in Conns :
    /\ pc[c] = "mig_loop" /\ idx[c] = 3
    /\ Blank(files[migration_files[c][2]])
    /\ ~Blank(files[migration_files[c][1]])
    /\ migration_files[c][2] \in Range(startLedger[c])
    /\ ran[c] = {}

\* C16 -- Missing or empty directory: a call made while the directory does not
\* exist, or holds no file, finds no unit, raises nothing, leaves the
\* _migrations table in place (created if it was not there), runs no statement
\* of any unit and ends with the Ledger rows it started with.
Thm_C16_NoUnits ==
  [][\A c \in Conns :
       ( /\ pc[c] \in {"mig_begin", "mig_loop"}
         /\ (~dir_exists \/ DOMAIN files = {})
         /\ ~Crashes(c) ) =>
           /\ migration_files'[c] = <<>>
           /\ pc'[c] \in {"mig_loop", "ready", "seed_check"}
           /\ result'[c].status \in {"running", "ok"}
           /\ ran'[c] = {}
           /\ View(c)'.hasLedger /\ db'[store[c]].hasLedger
           /\ ViewLedger(c)' = ViewLedger(c)
           /\ Ledger(store[c])' = Ledger(store[c])
           /\ \A s \in Stores :
                db'[s].eff = db[s].eff /\ db'[s].hasBooks = db[s].hasBooks]_vars

\* A call made without a directory is about to commit, on a database whose
\* Ledger has a row.
Wit_C16_NoDirectory ==
  \E c \in Conns :
    /\ ~dir_exists
    /\ pc[c] = "mig_loop" /\ idx[c] > Len(migration_files[c])
    /\ startLedger[c] # <<>>
    /\ ViewLedger(c) = startLedger[c]

Thm_C18_Membership ==
  [][\A c \in Conns :
       /\ ( /\ pc[c] = "mig_loop" /\ idx[c] <= Len(migration_files[c])
            /\ path(c) \notin Range(ViewLedger(c)) /\ ~Crashes(c) ) =>
              pc'[c] \in {"mig_script", "mig_record"}
       /\ (pc[c] = "mig_record" /\ pc'[c] = "mig_loop") =>
              ViewLedger(c)' = Append(ViewLedger(c), path(c))
       /\ (pc[c] = "mig_loop" /\ ~InMig(c)' /\ ~Crashes(c)) =>
              /\ result'[c].status \in {"running", "ok"}
              /\ DOMAIN files \subseteq Recorded(store[c])']_vars

\* A call has returned with every file recorded and a Ledger whose id order
\* is not the name order: a file was added below a recorded name.
Wit_C18_OutOfNameOrder ==
  \E c \in Conns :
    /\ pc[c] = "ready" /\ result[c] = [op |-> "migrate", status |-> "ok"]
    /\ ~Ascending(Ledger(store[c]))
    /\ ran[c] # {} /\ startLedger[c] # <<>>
    /\ DOMAIN files \subseteq Recorded(store[c])

====
